---------------------------- MODULE Spec2Model ----------------------------
(***************************************************************************)
(* A model of one AEAP speech-to-text session: the codec and language      *)
(* negotiators (lib/codecs.js, lib/languages.js, lib/utils.js), the        *)
(* Google provider (lib/provider.js) and the dispatcher that wires a       *)
(* transport to them (lib/dispatcher.js).                                  *)
(*                                                                         *)
(* Node runs every handler to completion, so each transport event, each    *)
(* upstream stream event and each timer expiry is one atomic action.       *)
(***************************************************************************)
EXTENDS Integers, Sequences, FiniteSets, TLC

(***************************************************************************)
(* Bounds of the model.                                                    *)
(***************************************************************************)
MaxMsgs == 2        \* inbound text messages handled in one session
MaxEmit == 3        \* results emitted in one session
MaxStreams == 2     \* recognition streams opened through the client
MaxBuffered == 2    \* chunks the corked Writable holds

(***************************************************************************)
(* JavaScript values.                                                      *)
(***************************************************************************)
Undefined == "undefined"    \* the value of a missing element or property
Null == 0                   \* null, for fields that otherwise hold a stream id

(***************************************************************************)
(* lib/utils.js                                                            *)
(***************************************************************************)

\* equals(obj1, obj2, eq): codecs are modelled by their name, the field the
\* eq callback of lib/codecs.js compares; languages are strings compared
\* with ==.
equals(obj1, obj2) ==
    IF obj1 = Undefined \/ obj2 = Undefined THEN FALSE ELSE obj1 = obj2

\* The inner loop of intersect: obj1 is pushed once for every obj2 equal to it.
RECURSIVE intersectInner(_, _)
intersectInner(obj1, objs2) ==
    IF objs2 = <<>> THEN <<>>
    ELSE (IF equals(obj1, Head(objs2)) THEN <<obj1>> ELSE <<>>)
             \o intersectInner(obj1, Tail(objs2))

\* An intersect that walks objs2 in its outer loop
RECURSIVE intersectByObjs2(_, _)
intersectByObjs2(objs1, objs2) ==
    IF objs2 = <<>> THEN <<>>
    ELSE (IF \E i \in DOMAIN objs1 : equals(objs1[i], Head(objs2))
          THEN <<Head(objs2)>> ELSE <<>>)
             \o intersectByObjs2(objs1, Tail(objs2))

RECURSIVE intersect(_, _)
intersect(objs1, objs2) ==
    IF objs1 = <<>> THEN <<>>
    ELSE intersectInner(Head(objs1), objs2) \o intersect(Tail(objs1), objs2)

\* A first that returns the match of the earliest candidate
firstByCandidate(objs1, objs2) ==
    LET res == intersect(objs2, objs1)
    IN  IF res = <<>> THEN Undefined ELSE res[1]

\* first(objs1, objs2): intersect(objs1, objs2)[0]; candidates are modelled
\* as lists, a single candidate being the one-element list first() makes
\* of it.
first(objs1, objs2) ==
    LET res == intersect(objs1, objs2)
    IN  IF res = <<>> THEN Undefined ELSE res[1]

(***************************************************************************)
(* lib/codecs.js and lib/languages.js                                      *)
(***************************************************************************)
supportedCodecs == <<"ulaw", "slin16", "opus">>
supportedLanguages == <<"en-US">>

\* sampleRate of the supported codec objects
sampleRate(name) ==
    CASE name = "ulaw" -> 8000
      [] name = "slin16" -> 16000
      [] name = "opus" -> 48000
      [] OTHER -> 0

\* An option is either not given or a list.
NoOption == [given |-> FALSE, list |-> <<>>]
Option(l) == [given |-> TRUE, list |-> l]

\* new Codecs(options)
Codecs(options) ==
    LET cs == IF options.given THEN intersect(supportedCodecs, options.list)
              ELSE supportedCodecs
    IN  [codecs |-> cs, selected |-> IF cs = <<>> THEN Undefined ELSE cs[1]]

\* new Languages(options)
Languages(options) ==
    LET ls == IF options.given THEN intersect(supportedLanguages, options.list)
              ELSE supportedLanguages
    IN  [languages |-> ls, selected |-> IF ls = <<>> THEN Undefined ELSE ls[1]]

\* Codecs.first(codecs): the selected codec, or Undefined when it throws.
CodecsFirst(c, cands) == first(c.codecs, cands)

\* A Languages.first that takes the first candidate without looking it up
LanguagesFirstUnchecked(l, cands) ==
    IF cands = <<>> THEN Undefined ELSE cands[1]

\* Languages.first(languages): the selected language, or Undefined when it
\* throws.
LanguagesFirst(l, cands) == first(l.languages, cands)

(***************************************************************************)
(* lib/provider.js: GoogleProvider                                         *)
(*                                                                         *)
(* A provider is a record:                                                 *)
(*   config          this.config                                           *)
(*   restartTimer    this.restartTimer: Null or the handle of a timeout    *)
(*   restartTimeout  this.restartTimeout                                   *)
(*   maxResults      this.maxResults                                       *)
(*   results         this.results, oldest first                            *)
(*   recognizeStream this.recognizeStream: Null or the id of a stream      *)
(*   client          this.client: whether close() was called on it and how *)
(*                   many streams streamingRecognize() has returned; the   *)
(*                   streams end() was called on, in the order of the      *)
(*                   calls, how often close() was called, and the config   *)
(*                   of the request each stream was opened with            *)
(*   pending         the timeouts this provider set that have neither      *)
(*                   expired nor been cleared                              *)
(*   ending, corked  the Writable's state: end() was called; cork() count  *)
(*   buffered        the chunks the corked Writable holds, oldest first    *)
(*   errored         the Writable was destroyed with an error              *)
(*   written         what recognizeStream.write() was called with while    *)
(*                   the current event is handled, in order                *)
(***************************************************************************)
DEFAULT_ENCODING == "MULAW"
DEFAULT_SAMPLE_RATE == 8000
DEFAULT_LANGUAGE == "en-US"
DEFAULT_RESTART_TIME == 10
DEFAULT_MAX_RESULTS == 100

\* GoogleProvider.encodings
encodings(name) ==
    CASE name = "ulaw" -> "MULAW"
      [] name = "slin16" -> "LINEAR16"
      [] name = "opus" -> "OGG Opus"
      [] OTHER -> Undefined

\* GoogleProvider.languages
providerLanguages == {"en-US"}

\* new GoogleProvider(options): a number option that is 0 or not given
\* falls back to the default (options.x || DEFAULT).
GoogleProvider(restartTime, maxResults) ==
    [config |-> [encoding |-> DEFAULT_ENCODING,
                 encodingencoding |-> Undefined,
                 sampleRateHertz |-> DEFAULT_SAMPLE_RATE,
                 languageCode |-> DEFAULT_LANGUAGE],
     restartTimer |-> Null,
     restartTimeout |-> IF restartTime = 0 THEN DEFAULT_RESTART_TIME
                        ELSE restartTime,
     maxResults |-> IF maxResults = 0 THEN DEFAULT_MAX_RESULTS ELSE maxResults,
     results |-> <<>>,
     recognizeStream |-> Null,
     client |-> [closed |-> FALSE, streams |-> 0, ended |-> <<>>,
                 closes |-> 0, requests |-> <<>>],
     pending |-> {},
     ending |-> FALSE,
     corked |-> 0,
     buffered |-> <<>>,
     errored |-> FALSE,
     written |-> <<>>]

\* The provider as an event finds it: nothing written upstream yet.
atEvent(p) == [p EXCEPT !.written = <<>>]

\* The argument of setConfig/start/restart: not given, or {codec, language}.
NoConfig == [given |-> FALSE, codec |-> Undefined, language |-> Undefined]
Config(codec, language) == [given |-> TRUE, codec |-> codec, language |-> language]

\* setConfig(config) throws
setConfigThrows(config) ==
    /\ config.given
    /\ \/ config.codec # Undefined /\ encodings(config.codec) = Undefined
       \/ config.language # Undefined /\ config.language \notin providerLanguages

\* setConfig(config) when it does not throw
setConfig(p, config) ==
    IF ~config.given THEN p
    ELSE LET withCodec ==
                 IF config.codec # Undefined
                 THEN [p.config EXCEPT !.encodingencoding = encodings(config.codec),
                                       !.sampleRateHertz = sampleRate(config.codec)]
                 ELSE p.config
             withLanguage ==
                 IF config.language # Undefined
                 THEN [withCodec EXCEPT !.languageCode = config.language]
                 ELSE withCodec
         IN  [p EXCEPT !.config = withLanguage]

\* A setConfig that merges the codec into this.config before it looks at the
\* language
trySetConfigCodecFirst(p, config) ==
    IF ~config.given THEN [p |-> p, threw |-> FALSE]
    ELSE IF config.codec # Undefined /\ encodings(config.codec) = Undefined
    THEN [p |-> p, threw |-> TRUE]
    ELSE LET q == setConfig(p, Config(config.codec, Undefined))
         IN  IF config.language # Undefined
                /\ config.language \notin providerLanguages
             THEN [p |-> q, threw |-> TRUE]
             ELSE [p |-> setConfig(p, config), threw |-> FALSE]

\* setConfig(config) as a call: [p, threw]. this.config is assigned on the
\* last line alone, after both checks.
trySetConfig(p, config) ==
    IF setConfigThrows(config) THEN [p |-> p, threw |-> TRUE]
    ELSE [p |-> setConfig(p, config), threw |-> FALSE]

\* A _write that writes the chunk to the stream twice
_writeTwice(p, chunk) ==
    IF p.recognizeStream # Null
    THEN [p EXCEPT !.written = Append(Append(@, chunk), chunk)]
    ELSE p

\* _write(chunk, encoding, callback)
_write(p, chunk) ==
    IF p.recognizeStream # Null THEN [p EXCEPT !.written = Append(@, chunk)]
    ELSE p

\* _writev(chunks, callback): for (let chunk in chunks) walks the keys of
\* the array, its indices and "allBuffers", and hands each key to _write,
\* which calls callback every time; the second call of callback is
\* ERR_MULTIPLE_CALLBACK, which destroys the Writable with that error.
_writev(p, chunks) ==
    LET keys == [i \in 1..Len(chunks) |-> ToString(i - 1)] \o <<"allBuffers">>
        wrote == IF p.recognizeStream # Null
                 THEN [p EXCEPT !.written = @ \o keys]
                 ELSE p
    IN  [wrote EXCEPT !.errored = TRUE]

\* uncork() until the Writable is not corked, inherited from Writable: a
\* Writable that is not destroyed hands what it buffered to _write (one
\* chunk) or to _writev (more).
uncork(p) ==
    LET q == [p EXCEPT !.corked = 0]
        handed == [q EXCEPT !.buffered = <<>>]
    IN  IF q.ending \/ q.errored \/ q.buffered = <<>> THEN q
        ELSE IF Len(q.buffered) = 1 THEN _write(handed, q.buffered[1])
        ELSE _writev(handed, q.buffered)

\* A write that keeps every chunk for the next stream
writeKeepsAll(p, chunk) ==
    IF p.ending \/ p.errored THEN p
    ELSE IF p.corked > 0 \/ p.recognizeStream = Null
    THEN [p EXCEPT !.buffered = Append(@, chunk)]
    ELSE _write(p, chunk)

\* write(chunk), inherited from Writable: a Writable that was ended or
\* destroyed takes nothing (and, being destroyed, emits no error), a corked
\* one buffers, any other calls _write.
write(p, chunk) ==
    IF p.ending \/ p.errored THEN p
    ELSE IF p.corked > 0 THEN [p EXCEPT !.buffered = Append(@, chunk)]
    ELSE _write(p, chunk)

\* A stop that leaves the restart timer armed
stopLeavesTimer(p) ==
    IF p.recognizeStream = Null THEN p
    ELSE [p EXCEPT !.corked = @ + 1,
                   !.client.ended = Append(@, p.recognizeStream),
                   !.recognizeStream = Null]

\* A stop that ends the stream and keeps this.recognizeStream
stopKeepsStream(p) ==
    LET cleared == IF p.restartTimer # Null
                   THEN [p EXCEPT !.pending = @ \ {p.restartTimer},
                                  !.restartTimer = Null]
                   ELSE p
    IN  IF cleared.recognizeStream = Null THEN cleared
        ELSE [cleared EXCEPT !.corked = @ + 1,
                             !.client.ended = Append(@, cleared.recognizeStream)]

\* stop()
stop(p) ==
    LET cleared == IF p.restartTimer # Null
                   THEN [p EXCEPT !.pending = @ \ {p.restartTimer},
                                  !.restartTimer = Null]
                   ELSE p
    IN  IF cleared.recognizeStream = Null THEN cleared
        ELSE [cleared EXCEPT !.corked = @ + 1,
                             !.client.ended = Append(@, cleared.recognizeStream),
                             !.recognizeStream = Null]

\* A start that calls setConfig before it looks for a stream
startConfigFirst(p, config) ==
    IF trySetConfig(p, config).threw THEN trySetConfig(p, config)
    ELSE LET q == trySetConfig(p, config).p
             id == q.client.streams + 1
             opened == [q EXCEPT !.client.streams = id,
                                 !.client.requests = Append(@, q.config),
                                 !.recognizeStream = id]
             armed == IF opened.restartTimeout # 0
                      THEN [opened EXCEPT !.restartTimer = id,
                                          !.pending = @ \cup {id}]
                      ELSE opened
         IN  IF q.recognizeStream # Null THEN [p |-> q, threw |-> FALSE]
             ELSE [p |-> uncork(armed), threw |-> FALSE]

\* start(config): [p, threw]. streamingRecognize() returns a stream whatever
\* the state of the client; the timeout armed with it carries its id.
start(p, config) ==
    IF p.recognizeStream # Null THEN [p |-> p, threw |-> FALSE]
    ELSE IF trySetConfig(p, config).threw THEN trySetConfig(p, config)
    ELSE LET q == trySetConfig(p, config).p
             id == q.client.streams + 1
             opened == [q EXCEPT !.client.streams = id,
                                 !.client.requests = Append(@, q.config),
                                 !.recognizeStream = id]
             armed == IF opened.restartTimeout # 0
                      THEN [opened EXCEPT !.restartTimer = id,
                                          !.pending = @ \cup {id}]
                      ELSE opened
         IN  [p |-> uncork(armed), threw |-> FALSE]

\* A restart that starts without stopping
restartWithoutStop(p, config) == start(p, config)

\* restart(config)
restart(p, config) == start(stop(p), config)

\* _final(callback)
final(p) == [stop(p) EXCEPT !.client.closed = TRUE, !.client.closes = @ + 1]

\* end(), inherited from Writable: it uncorks, and the first call on a
\* Writable without error runs _final; a later call finds the stream ending
\* and does nothing more.
end(p) ==
    LET uncorked == uncork(p)
    IN  IF ~p.ending /\ ~uncorked.errored
        THEN final([uncorked EXCEPT !.ending = TRUE])
        ELSE uncorked

\* An upstream response: no result, or a transcript with a confidence in
\* hundredths.
NoResult == [hasResult |-> FALSE, transcript |-> 0, confidence |-> 0]
Transcript(t, c) == [hasResult |-> TRUE, transcript |-> t, confidence |-> c]

\* A 'data' handler without the test of the confidence
emitsAnyConfidence(response) == response.hasResult

\* Whether the 'data' handler emits a result for the response
emits(response) == response.hasResult /\ response.confidence # 0

\* The result the 'data' handler builds
resultOf(response) == [text |-> response.transcript, score |-> response.confidence]

\* A 'data' handler that shifts only once the buffer is over its capacity
pushResultLate(p, result) ==
    LET kept == IF Len(p.results) > p.maxResults THEN Tail(p.results)
                ELSE p.results
    IN  [p EXCEPT !.results = Append(kept, result)]

\* The 'data' handler's update of this.results
pushResult(p, result) ==
    LET kept == IF Len(p.results) = p.maxResults THEN Tail(p.results)
                ELSE p.results
    IN  [p EXCEPT !.results = Append(kept, result)]

(***************************************************************************)
(* lib/dispatcher.js                                                       *)
(*                                                                         *)
(* A message is a record; a field the JSON object does not have is         *)
(* Undefined (request, response) or has its has* flag FALSE.               *)
(*   request.codecs   [present, list]: the candidate codec names           *)
(*   request.params   [kind, names, hasLanguage, language, other]: absent, *)
(*                    a list of names, or an object that may have a        *)
(*                    language key (its candidates) and some other key     *)
(***************************************************************************)
NoParams == [kind |-> "absent", names |-> <<>>, hasLanguage |-> FALSE,
             language |-> <<>>, other |-> FALSE]
ListParams(names) == [NoParams EXCEPT !.kind = "list", !.names = names]
ObjectParams(hasLanguage, language, other) ==
    [kind |-> "object", names |-> <<>>, hasLanguage |-> hasLanguage,
     language |-> language, other |-> other]

NoCodecs == [present |-> FALSE, list |-> <<>>]
CodecList(l) == [present |-> TRUE, list |-> l]

\* An id the peer chose, and one randomUUID() made
PeerId(n) == [by |-> "peer", n |-> n]
UUID(n) == [by |-> "randomUUID", n |-> n]

Request(name, id, codecs, params) ==
    [request |-> name, id |-> id, codecs |-> codecs, params |-> params]

\* The params of an outbound message
NoOutParams == [hasCodecs |-> FALSE, codecs |-> Undefined,
                hasLanguage |-> FALSE, language |-> Undefined,
                hasResults |-> FALSE, results |-> <<>>]

\* handleRequest: let response = { response: msg.request, id: msg.id }
Response(name, id) ==
    [request |-> Undefined, response |-> name, id |-> id,
     hasCodecs |-> FALSE, codecs |-> <<>>,
     hasParams |-> FALSE, params |-> NoOutParams,
     hasError |-> FALSE, error_msg |-> ""]

\* A handleError that answers with a new object holding the error alone
handleErrorAlone(message, msg) ==
    [msg EXCEPT !.response = Undefined, !.id = [by |-> "nobody", n |-> 0],
                !.hasError = TRUE, !.error_msg = message]

\* handleError(e, msg)
handleError(message, msg) == [msg EXCEPT !.hasError = TRUE, !.error_msg = message]

\* JSON.stringify in sendMessage: a property whose value is undefined is
\* left out of the text.
stringify(msg) ==
    [msg EXCEPT !.params.hasCodecs = @ /\ msg.params.codecs # Undefined,
                !.params.hasLanguage = @ /\ msg.params.language # Undefined]

\* sendMessage(speech, msg): what transport.send() puts on the wire; a
\* closed transport drops it.
sendMessage(open, msg) == IF open THEN <<stringify(msg)>> ELSE <<>>

\* A sendSetRequest that gives every push the same id
sendSetRequestSameId(open, uuid, result) ==
    sendMessage(open,
        [request |-> "set", response |-> Undefined,
         id |-> [by |-> "randomUUID", n |-> 1],
         hasCodecs |-> FALSE, codecs |-> <<>>,
         hasParams |-> TRUE,
         params |-> [NoOutParams EXCEPT !.hasResults = TRUE,
                                        !.results = <<result>>],
         hasError |-> FALSE, error_msg |-> ""])

\* sendSetRequest(speech, params) with params = { results: [ result ] }
sendSetRequest(open, uuid, result) ==
    sendMessage(open,
        [request |-> "set", response |-> Undefined, id |-> uuid,
         hasCodecs |-> FALSE, codecs |-> <<>>,
         hasParams |-> TRUE,
         params |-> [NoOutParams EXCEPT !.hasResults = TRUE,
                                        !.results = <<result>>],
         hasError |-> FALSE, error_msg |-> ""])

\* The state a handler works on, and what it leaves: the negotiators, the
\* provider, the response, the error thrown (Undefined if none) and the
\* configs it passed to provider.restart.
Outcome(c, l, p, response, error, restarts) ==
    [codecs |-> c, languages |-> l, provider |-> p, response |-> response,
     error |-> error, restarts |-> restarts]

\* A loop of handleGetRequest that answers "codec" and "language" with the
\* first allowed value instead of the selected one
RECURSIVE getLoopReturnsDefault(_, _, _, _, _)
getLoopReturnsDefault(c, l, names, i, acc) ==
    IF i > Len(names) \/ acc.error # Undefined THEN acc
    ELSE LET n == names[i]
             head(s) == IF s = <<>> THEN Undefined ELSE s[1]
             next ==
                 CASE n = "codec" ->
                        [acc EXCEPT !.params.hasCodecs = TRUE,
                                    !.params.codecs = head(c.codecs)]
                   [] n = "language" ->
                        [acc EXCEPT !.params.hasLanguage = TRUE,
                                    !.params.language = head(l.languages)]
                   [] n = "results" ->
                        [acc EXCEPT !.params.hasResults = TRUE,
                                    !.params.results = acc.results,
                                    !.results = <<>>]
                   [] OTHER -> [acc EXCEPT !.error = "k is not defined"]
         IN  getLoopReturnsDefault(c, l, names, i + 1, next)

\* The loop of handleGetRequest from the i-th name on: acc is
\* [params, results, error]. The warning for a name that is none of the
\* three reads the variable k, which is not defined.
RECURSIVE getLoop(_, _, _, _, _)
getLoop(c, l, names, i, acc) ==
    IF i > Len(names) \/ acc.error # Undefined THEN acc
    ELSE LET n == names[i]
             next ==
                 CASE n = "codec" ->
                        [acc EXCEPT !.params.hasCodecs = TRUE,
                                    !.params.codecs = c.selected]
                   [] n = "language" ->
                        [acc EXCEPT !.params.hasLanguage = TRUE,
                                    !.params.language = l.selected]
                   [] n = "results" ->
                        [acc EXCEPT !.params.hasResults = TRUE,
                                    !.params.results = acc.results,
                                    !.results = <<>>]
                   [] OTHER -> [acc EXCEPT !.error = "k is not defined"]
         IN  getLoop(c, l, names, i + 1, next)

\* handleGetRequest(speech, request, response)
handleGetRequest(c, l, p, request, response) ==
    IF request.params.kind = "absent"
    THEN Outcome(c, l, p, response, "Missing request parameters", <<>>)
    ELSE IF request.params.kind = "object"
    THEN Outcome(c, l, p, response, "request.params is not iterable", <<>>)
    ELSE LET acc == getLoop(c, l, request.params.names, 1,
                            [params |-> NoOutParams, results |-> p.results,
                             error |-> Undefined])
             q == [p EXCEPT !.results = acc.results]
         IN  IF acc.error # Undefined
             THEN Outcome(c, l, q, response, acc.error, <<>>)
             ELSE Outcome(c, l, q,
                          [response EXCEPT !.hasParams = TRUE,
                                           !.params = acc.params],
                          Undefined, <<>>)

\* A restart argument that leaves the language out
restartConfigCodecOnly(c, l) == Config(c.selected, Undefined)

\* The argument handleSetRequest passes to provider.restart
restartConfig(c, l) == Config(c.selected, l.selected)

\* handleSetRequest(speech, request, response)
handleSetRequest(c, l, p, request, response) ==
    IF ~request.codecs.present \/ request.params.kind = "absent"
    THEN Outcome(c, l, p, response, "Missing request parameters", <<>>)
    ELSE
    LET codec == CodecsFirst(c, request.codecs.list)
        hasLanguage == request.params.kind = "object" /\ request.params.hasLanguage
        language == IF hasLanguage THEN LanguagesFirst(l, request.params.language)
                    ELSE Undefined
    IN  IF codec = Undefined
        THEN Outcome(c, l, p, response, "Codec not supported", <<>>)
        ELSE IF hasLanguage /\ language = Undefined
        THEN Outcome(c, l, p, response, "Language not supported", <<>>)
        ELSE
        LET c2 == [c EXCEPT !.selected = codec]
            r2 == [response EXCEPT !.hasCodecs = TRUE, !.codecs = <<codec>>]
            l2 == IF hasLanguage THEN [l EXCEPT !.selected = language] ELSE l
            r3 == IF hasLanguage
                  THEN [r2 EXCEPT !.hasParams = TRUE,
                                  !.params.hasLanguage = TRUE,
                                  !.params.language = language]
                  ELSE r2
            config == restartConfig(c2, l2)
            started == restart(p, config)
        IN  IF r3.hasCodecs \/ r3.hasParams
            THEN Outcome(c2, l2, started.p, r3,
                         IF started.threw THEN "not supported" ELSE Undefined,
                         <<config>>)
            ELSE Outcome(c2, l2, p, r3, Undefined, <<>>)

\* handleRequest(speech, msg): the response and the state the handler left,
\* an exception of the handler included.
handleRequest(c, l, p, msg) ==
    LET response == Response(msg.request, msg.id)
        out == CASE msg.request = "get" -> handleGetRequest(c, l, p, msg, response)
                 [] msg.request \in {"set", "setup"} ->
                        handleSetRequest(c, l, p, msg, response)
                 [] OTHER -> Outcome(c, l, p, response,
                                     "handlers[msg.request] is not a function", <<>>)
    IN  IF out.error # Undefined
        THEN [out EXCEPT !.response = handleError(out.error, out.response)]
        ELSE out

\* A handleResponse that answers the response it is given
handleResponseEcho(frame) == <<Response(Undefined, [by |-> "peer", n |-> 0])>>

\* handleResponse(speech, msg): return null, so that nothing is sent
handleResponse(frame) == <<>>

\* The text frames without a request field: a JSON object with a response
\* field, a JSON object with neither field, a JSON value that is no object
\* (a number, a string, true, an array), the JSON value null, and a text
\* that is not JSON.
OtherFrames == {"response", "neither", "scalar", "null", "invalid"}

\* The exception the message handler throws outside handleRequest's try:
\* JSON.parse on a text that is not JSON, msg.hasOwnProperty on null.
thrown(frame) ==
    CASE frame = "invalid" -> "SyntaxError"
      [] frame = "null" -> "TypeError"
      [] OTHER -> Undefined

(***************************************************************************)
(* The session                                                             *)
(***************************************************************************)
VARIABLES
    codecs,         \* speech.codecs: [codecs, selected]
    languages,      \* speech.languages: [languages, selected]
    provider,       \* speech.provider
    transportOpen,  \* the transport has not emitted 'close'
    sent,           \* the messages the last event put on the transport
    uuids,          \* how many ids randomUUID() has made
    last,           \* the last event: [ev, req, data, restarts, chunk,
                    \* frame, escaped, stream]
    nmsgs,          \* text messages handled
    options,        \* the options the session was constructed with
    call            \* the last direct call of a method: [op, config, chunk,
                    \* cands, threw, result]

vars == <<codecs, languages, provider, transportOpen, sent, uuids, last,
          nmsgs, options, call>>

\* The configurations a session is constructed with: the codecs and the
\* languages options, and the provider's restartTime and maxResults (0: not
\* given)
Options ==
    {[codecs |-> NoOption, languages |-> NoOption,
      restartTime |-> 0, maxResults |-> 0],
     [codecs |-> Option(<<"slin16", "ulaw">>), languages |-> NoOption,
      restartTime |-> 5, maxResults |-> 2],
     [codecs |-> Option(<<"g722">>), languages |-> NoOption,
      restartTime |-> 0, maxResults |-> 2],
     [codecs |-> NoOption, languages |-> Option(<<>>),
      restartTime |-> 0, maxResults |-> 1]}

\* The requests the peer sends as its n-th message; it numbers its ids.
GetParams ==
    {NoParams, ObjectParams(FALSE, <<>>, FALSE)} \cup
    {ListParams(n) : n \in {<<>>, <<"results">>,
                            <<"bogus">>, <<"codec", "language">>,
                            <<"results", "codec">>, <<"results", "bogus">>,
                            <<"bogus", "results">>, <<"results", "results">>}}
SetCodecs == {NoCodecs, CodecList(<<"ulaw">>), CodecList(<<"opus", "slin16">>),
              CodecList(<<"g722">>)}
SetParams == {NoParams, ListParams(<<"language">>),
              ObjectParams(FALSE, <<>>, FALSE), ObjectParams(FALSE, <<>>, TRUE),
              ObjectParams(TRUE, <<"en-US">>, FALSE),
              ObjectParams(TRUE, <<"fr-FR">>, FALSE)}
Requests(n) ==
    {Request("get", PeerId(n), NoCodecs, ps) : ps \in GetParams} \cup
    {Request("set", PeerId(n), cs, ps) : cs \in SetCodecs, ps \in SetParams} \cup
    {Request("setup", PeerId(n), cs, ps) :
         cs \in {CodecList(<<"ulaw">>), CodecList(<<"g722">>)},
         ps \in {ObjectParams(TRUE, <<"en-US">>, FALSE),
                 ObjectParams(TRUE, <<"fr-FR">>, FALSE)}} \cup
    {Request("bogus", PeerId(n), NoCodecs, NoParams)}

\* The upstream responses a stream delivers; k numbers the transcripts that
\* make a result.
Responses(k) == {NoResult, Transcript(k, 0), Transcript(k, 87)}

NoRequest == Request(Undefined, PeerId(0), NoCodecs, NoParams)
Event(ev, req, data, restarts) ==
    [ev |-> ev, req |-> req, data |-> data, restarts |-> restarts,
     chunk |-> Undefined, frame |-> Undefined, escaped |-> Undefined,
     stream |-> Null]

\* The payloads of binary frames
Chunks == {"a1", "a2"}
BinaryEvent(chunk) ==
    [Event("binary", NoRequest, NoResult, <<>>) EXCEPT !.chunk = chunk]

\* No method has been called directly.
NoCall == [op |-> "none", config |-> NoConfig, chunk |-> Undefined,
           cands |-> <<>>, threw |-> FALSE, result |-> Undefined]

Init ==
    /\ options \in Options
    /\ codecs = Codecs(options.codecs)
    /\ languages = Languages(options.languages)
    /\ provider = GoogleProvider(options.restartTime, options.maxResults)
    /\ call = NoCall
    /\ transportOpen = TRUE
    /\ sent = <<>>
    /\ uuids = 0
    /\ last = Event("none", NoRequest, NoResult, <<>>)
    /\ nmsgs = 0

\* transport.on("message") with a text frame that has a request field
TextRequest(msg) ==
    LET out == handleRequest(codecs, languages, atEvent(provider), msg)
    IN  /\ transportOpen
        /\ nmsgs < MaxMsgs
        /\ out.provider.client.streams <= MaxStreams
        /\ codecs' = out.codecs
        /\ languages' = out.languages
        /\ provider' = out.provider
        /\ sent' = sendMessage(transportOpen, out.response)
        /\ last' = Event("request", msg, NoResult, out.restarts)
        /\ nmsgs' = nmsgs + 1
        /\ UNCHANGED <<transportOpen, uuids, options, call>>

\* transport.on("close")
TransportClose ==
    /\ transportOpen
    /\ transportOpen' = FALSE
    /\ provider' = end(atEvent(provider))
    /\ sent' = <<>>
    /\ last' = Event("close", NoRequest, NoResult, <<>>)
    /\ UNCHANGED <<codecs, languages, uuids, nmsgs, options, call>>

\* The event of a text frame without a request field
TextEvent(frame, escaped) ==
    [Event("text", NoRequest, NoResult, <<>>) EXCEPT !.frame = frame,
                                                     !.escaped = escaped]

\* transport.on("message") with a text frame that has no request field (a
\* frame with both fields is a request: hasOwnProperty('request') is tested
\* first). An exception that escapes the handler is recorded; what becomes
\* of the process then is decided outside these sources, so the session
\* may go on.
TextOther(frame) ==
    /\ transportOpen
    /\ sent' = IF thrown(frame) # Undefined THEN <<>>
               ELSE IF frame = "response" THEN handleResponse(frame)
               ELSE <<>>
    /\ last' = TextEvent(frame, thrown(frame))
    /\ provider' = atEvent(provider)
    /\ UNCHANGED <<codecs, languages, transportOpen, uuids, nmsgs, options,
                   call>>

\* transport.on("message") with a binary frame
BinaryMessage(chunk) ==
    /\ transportOpen
    /\ Len(provider.buffered) < MaxBuffered
    /\ provider' = write(atEvent(provider), chunk)
    /\ sent' = <<>>
    /\ last' = BinaryEvent(chunk)
    /\ UNCHANGED <<codecs, languages, transportOpen, uuids, nmsgs, options,
                   call>>

\* A 'data' handler that drops what a replaced stream delivers
StreamDataCurrentOnly(s, response) ==
    /\ uuids < MaxEmit
    /\ last' = [Event("data", NoRequest, response, <<>>) EXCEPT !.stream = s]
    /\ IF emits(response) /\ s = provider.recognizeStream
       THEN /\ sent' = sendSetRequest(transportOpen, UUID(uuids + 1),
                                      resultOf(response))
            /\ uuids' = uuids + 1
            /\ provider' = pushResult(atEvent(provider), resultOf(response))
       ELSE /\ sent' = <<>>
            /\ provider' = atEvent(provider)
            /\ UNCHANGED uuids
    /\ UNCHANGED <<codecs, languages, transportOpen, nmsgs, options, call>>

\* recognizeStream.on('data') of the stream s, current or replaced, and
\* provider.on("result") for the result it emits
StreamData(s, response) ==
    /\ uuids < MaxEmit
    /\ last' = [Event("data", NoRequest, response, <<>>) EXCEPT !.stream = s]
    /\ IF emits(response)
       THEN /\ sent' = sendSetRequest(transportOpen, UUID(uuids + 1),
                                      resultOf(response))
            /\ uuids' = uuids + 1
            /\ provider' = pushResult(atEvent(provider), resultOf(response))
       ELSE /\ sent' = <<>>
            /\ provider' = atEvent(provider)
            /\ UNCHANGED uuids
    /\ UNCHANGED <<codecs, languages, transportOpen, nmsgs, options, call>>

\* recognizeStream.on('error') of the stream s, current or replaced
StreamError(s) ==
    /\ provider' = end(atEvent(provider))
    /\ sent' = <<>>
    /\ last' = Event("error", NoRequest, NoResult, <<>>)
    /\ UNCHANGED <<codecs, languages, transportOpen, uuids, nmsgs, options,
                   call>>

\* The timeout t expires: () => this.restart()
TimerExpires(t) ==
    LET out == restart([atEvent(provider) EXCEPT !.pending = @ \ {t}],
                       NoConfig)
    IN  /\ out.p.client.streams <= MaxStreams
        /\ provider' = out.p
        /\ sent' = <<>>
        /\ last' = Event("timer", NoRequest, NoResult, <<>>)
        /\ UNCHANGED <<codecs, languages, transportOpen, uuids, nmsgs,
                       options, call>>

Next ==
    \/ \E msg \in Requests(nmsgs + 1) : TextRequest(msg)
    \/ TransportClose
    \/ \E frame \in OtherFrames : TextOther(frame)
    \/ \E chunk \in Chunks : BinaryMessage(chunk)
    \/ \E s \in 1..provider.client.streams :
           \E response \in Responses(uuids + 1) : StreamData(s, response)
    \/ \E s \in 1..provider.client.streams : StreamError(s)
    \/ \E t \in provider.pending : TimerExpires(t)

Spec == Init /\ [][Next]_vars

(***************************************************************************)
(* The negotiators on their own: constructed with any configured list,     *)
(* and asked to select from any candidate list.                            *)
(***************************************************************************)
MaxLen == 2     \* length of a configured list and of a candidate list

CodecNames == {"ulaw", "slin16", "opus", "g722"}
LanguageNames == {"en-US", "fr-FR"}
Lists(S) == UNION {[1..n -> S] : n \in 0..MaxLen}

\* The two negotiators share nothing: one of them at a time is given a
\* configured list.
NegOptions ==
    {[codecs |-> c, languages |-> NoOption, restartTime |-> 0,
      maxResults |-> 0] :
         c \in {NoOption} \cup {Option(x) : x \in Lists(CodecNames)}} \cup
    {[codecs |-> NoOption, languages |-> l, restartTime |-> 0,
      maxResults |-> 0] :
         l \in {Option(x) : x \in Lists(LanguageNames)}}

NegInit ==
    /\ options \in NegOptions
    /\ codecs = Codecs(options.codecs)
    /\ languages = Languages(options.languages)
    /\ provider = GoogleProvider(options.restartTime, options.maxResults)
    /\ call = NoCall
    /\ transportOpen = TRUE
    /\ sent = <<>>
    /\ uuids = 0
    /\ last = Event("none", NoRequest, NoResult, <<>>)
    /\ nmsgs = 0

\* speech.codecs.first(cands): it returns a codec or throws, and assigns
\* nothing.
CallCodecsFirst(cands) ==
    LET res == CodecsFirst(codecs, cands)
    IN  /\ call' = [NoCall EXCEPT !.op = "codecs.first", !.cands = cands,
                                  !.threw = (res = Undefined), !.result = res]
        /\ UNCHANGED <<codecs, languages, provider, transportOpen, sent,
                       uuids, last, nmsgs, options>>

\* speech.languages.first(cands)
CallLanguagesFirst(cands) ==
    LET res == LanguagesFirst(languages, cands)
    IN  /\ call' = [NoCall EXCEPT !.op = "languages.first", !.cands = cands,
                                  !.threw = (res = Undefined), !.result = res]
        /\ UNCHANGED <<codecs, languages, provider, transportOpen, sent,
                       uuids, last, nmsgs, options>>

NegNext ==
    \/ \E cands \in Lists(CodecNames) : CallCodecsFirst(cands)
    \/ \E cands \in Lists(LanguageNames) : CallLanguagesFirst(cands)

NegSpec == NegInit /\ [][NegNext]_vars

(***************************************************************************)
(* The provider on its own, driven through its methods: setConfig, start,  *)
(* stop, restart, end and write, with its restart timer and the error of   *)
(* its stream.                                                             *)
(***************************************************************************)
ProvConfigs ==
    {NoConfig, Config("ulaw", "en-US"), Config("slin16", Undefined),
     Config("g722", "en-US"), Config("opus", "fr-FR"),
     Config(Undefined, "fr-FR")}

ProvInit ==
    /\ options \in Options
    /\ codecs = Codecs(options.codecs)
    /\ languages = Languages(options.languages)
    /\ provider = GoogleProvider(options.restartTime, options.maxResults)
    /\ call = NoCall
    /\ transportOpen = TRUE
    /\ sent = <<>>
    /\ uuids = 0
    /\ last = Event("none", NoRequest, NoResult, <<>>)
    /\ nmsgs = 0

\* What a call leaves alone
ProvUnchanged ==
    UNCHANGED <<codecs, languages, transportOpen, sent, uuids, last, nmsgs,
                options>>

\* provider.setConfig(config)
CallSetConfig(config) ==
    LET out == trySetConfig(atEvent(provider), config)
    IN  /\ provider' = out.p
        /\ call' = [NoCall EXCEPT !.op = "setConfig", !.config = config,
                                  !.threw = out.threw]
        /\ ProvUnchanged

\* provider.start(config)
CallStart(config) ==
    LET out == start(atEvent(provider), config)
    IN  /\ out.p.client.streams <= MaxStreams
        /\ provider' = out.p
        /\ call' = [NoCall EXCEPT !.op = "start", !.config = config,
                                  !.threw = out.threw]
        /\ ProvUnchanged

\* provider.stop()
CallStop ==
    /\ provider' = stop(atEvent(provider))
    /\ call' = [NoCall EXCEPT !.op = "stop"]
    /\ ProvUnchanged

\* provider.restart(config)
CallRestart(config) ==
    LET out == restart(atEvent(provider), config)
    IN  /\ out.p.client.streams <= MaxStreams
        /\ provider' = out.p
        /\ call' = [NoCall EXCEPT !.op = "restart", !.config = config,
                                  !.threw = out.threw]
        /\ ProvUnchanged

\* provider.end()
CallEnd ==
    /\ provider' = end(atEvent(provider))
    /\ call' = [NoCall EXCEPT !.op = "end"]
    /\ ProvUnchanged

\* provider.write(chunk)
CallWrite(chunk) ==
    /\ Len(provider.buffered) < MaxBuffered
    /\ provider' = write(atEvent(provider), chunk)
    /\ call' = [NoCall EXCEPT !.op = "write", !.chunk = chunk]
    /\ ProvUnchanged

\* The timeout t expires: () => this.restart()
TimerRestarts(t) ==
    LET out == restart([atEvent(provider) EXCEPT !.pending = @ \ {t}],
                       NoConfig)
    IN  /\ out.p.client.streams <= MaxStreams
        /\ provider' = out.p
        /\ call' = [NoCall EXCEPT !.op = "timer"]
        /\ ProvUnchanged

\* recognizeStream.on('error') of the stream s, current or replaced
ErrorEnds(s) ==
    /\ provider' = end(atEvent(provider))
    /\ call' = [NoCall EXCEPT !.op = "error"]
    /\ ProvUnchanged

ProvNext ==
    \/ \E config \in ProvConfigs : CallSetConfig(config)
    \/ \E config \in ProvConfigs : CallStart(config)
    \/ CallStop
    \/ \E config \in ProvConfigs : CallRestart(config)
    \/ CallEnd
    \/ \E chunk \in Chunks : CallWrite(chunk)
    \/ \E t \in provider.pending : TimerRestarts(t)
    \/ \E s \in 1..provider.client.streams : ErrorEnds(s)

ProvSpec == ProvInit /\ [][ProvNext]_vars

(***************************************************************************)
(* Properties                                                              *)
(***************************************************************************)
Range(f) == {f[i] : i \in DOMAIN f}

\* No candidate is in the allowed list
NoMatch(allowed, cands) == Range(allowed) \cap Range(cands) = {}

\* The step handles a text request; last'.req is that request and sent' what
\* the step put on the transport.
IsRequestStep == nmsgs' # nmsgs
IsSetStep == IsRequestStep /\ last'.req.request \in {"set", "setup"}
IsGetStep == IsRequestStep /\ last'.req.request = "get"

\* The step handles a 'data' event that emits a result.
IsResultStep == uuids' # uuids

\* C1: a set/setup request with both a codecs list and a params.language of
\* which either resolution fails leaves both selected values as they were,
\* does not call provider.restart, and is answered by a response that holds
\* response, id and error_msg alone.
C1_SetIsAllOrNothing ==
    [][(/\ IsSetStep
        /\ last'.req.codecs.present
        /\ last'.req.params.hasLanguage
        /\ \/ NoMatch(codecs.codecs, last'.req.codecs.list)
           \/ NoMatch(languages.languages, last'.req.params.language))
       => /\ codecs'.selected = codecs.selected
          /\ languages'.selected = languages.selected
          /\ last'.restarts = <<>>
          /\ provider' = atEvent(provider)
          /\ Len(sent') = 1
          /\ sent'[1].hasError
          /\ ~sent'[1].hasCodecs
          /\ ~sent'[1].hasParams]_vars

\* C1 witness: the codec candidate is allowed and is not the selected codec,
\* the language is not allowed, and the request was answered with an error.
C1_Witness ==
    /\ last.ev = "request"
    /\ last.req.request = "set"
    /\ last.req.codecs.present
    /\ last.req.params.hasLanguage
    /\ ~NoMatch(codecs.codecs, last.req.codecs.list)
    /\ codecs.selected \notin Range(last.req.codecs.list)
    /\ NoMatch(languages.languages, last.req.params.language)
    /\ Len(sent) = 1
    /\ sent[1].hasError

\* C2: every text message with a request field is answered by exactly one
\* message on the transport, a response whose response field is the request
\* name and whose id is the request id, sent by the step that handles the
\* request (so in arrival order); the transport stays open; no other step
\* sends a response.
C2_OneResponsePerRequest ==
    [][/\ IsRequestStep =>
            /\ Len(sent') = 1
            /\ sent'[1].request = Undefined
            /\ sent'[1].response = last'.req.request
            /\ sent'[1].id = last'.req.id
            /\ transportOpen'
       /\ ~IsRequestStep =>
            \A i \in DOMAIN sent' : sent'[i].response = Undefined]_vars

\* C2 witness: the second request of a session, of an unknown kind, was
\* answered with an error and the session is open.
C2_Witness ==
    /\ nmsgs = 2
    /\ last.ev = "request"
    /\ last.req.request = "bogus"
    /\ Len(sent) = 1
    /\ sent[1].hasError
    /\ sent[1].id = PeerId(2)
    /\ transportOpen

\* C3: in every reachable state, for the codecs and for the languages,
\* selected is an element of allowed and allowed is a subset of universal.
C3_SelectedIsAllowed ==
    /\ codecs.selected \in Range(codecs.codecs)
    /\ Range(codecs.codecs) \subseteq Range(supportedCodecs)
    /\ languages.selected \in Range(languages.languages)
    /\ Range(languages.languages) \subseteq Range(supportedLanguages)

\* C4: a set/setup request with a valid params.language and no codecs, or
\* with valid codecs and no params, is no error: the response holds the
\* supplied field alone and provider.restart is called once with the codec
\* and the language selected after the request, the one not supplied being
\* the one selected before.
C4_AbsentFieldIsSkipped ==
    [][/\ (/\ IsSetStep
           /\ ~last'.req.codecs.present
           /\ last'.req.params.hasLanguage
           /\ ~NoMatch(languages.languages, last'.req.params.language))
          => /\ Len(sent') = 1
             /\ ~sent'[1].hasError
             /\ ~sent'[1].hasCodecs
             /\ sent'[1].hasParams
             /\ sent'[1].params.hasLanguage
             /\ sent'[1].params.language = languages'.selected
             /\ codecs'.selected = codecs.selected
             /\ last'.restarts = <<Config(codecs.selected, languages'.selected)>>
       /\ (/\ IsSetStep
           /\ last'.req.codecs.present
           /\ last'.req.params.kind = "absent"
           /\ ~NoMatch(codecs.codecs, last'.req.codecs.list))
          => /\ Len(sent') = 1
             /\ ~sent'[1].hasError
             /\ sent'[1].hasCodecs
             /\ sent'[1].codecs = <<codecs'.selected>>
             /\ ~sent'[1].hasParams
             /\ languages'.selected = languages.selected
             /\ last'.restarts = <<Config(codecs'.selected, languages.selected)>>]_vars

\* C5: a request answered with an error_msg leaves codecs.selected,
\* languages.selected, the result buffer, the recognition stream and the
\* restart timer as they were.
C5_ErrorLeavesStateUnchanged ==
    [][(IsRequestStep /\ Len(sent') = 1 /\ sent'[1].hasError)
       => /\ codecs'.selected = codecs.selected
          /\ languages'.selected = languages.selected
          /\ provider'.results = provider.results
          /\ provider'.recognizeStream = provider.recognizeStream
          /\ provider'.restartTimer = provider.restartTimer
          /\ provider'.pending = provider.pending]_vars

\* C6: a get request whose params list contains "results" is answered with
\* the whole result buffer, oldest first, and leaves the buffer empty.
C6_GetResultsDrains ==
    [][(/\ IsGetStep
        /\ last'.req.params.kind = "list"
        /\ "results" \in Range(last'.req.params.names))
       => LET returned == IF sent'[1].hasParams /\ sent'[1].params.hasResults
                           THEN sent'[1].params.results ELSE <<>>
          IN  /\ Len(sent') = 1
              /\ returned = provider.results
              /\ provider'.results = <<>>]_vars

\* C7: the result buffer never holds more than maxResults results; a result
\* appended to a full buffer evicts the oldest entry alone, and a result
\* appended to any buffer comes last, behind the entries kept in their
\* order.
C7_BufferIsBounded ==
    /\ [](Len(provider.results) <= provider.maxResults)
    /\ [][IsResultStep =>
            LET result == resultOf(last'.data)
            IN  IF Len(provider.results) = provider.maxResults
                THEN provider'.results = Append(Tail(provider.results), result)
                ELSE provider'.results = Append(provider.results, result)]_vars

\* C7 witness: the one request handled opened the stream (so nothing was
\* drained), maxResults + 1 results were emitted with maxResults >= 2, the
\* buffer is full and its oldest entry is the second result.
C7_Witness ==
    /\ last.ev = "data"
    /\ nmsgs = 1
    /\ provider.maxResults >= 2
    /\ uuids = provider.maxResults + 1
    /\ Len(provider.results) = provider.maxResults
    /\ provider.results[1].text = 2
    /\ provider.results[Len(provider.results)].text = uuids

\* C8: once end() was called on the provider, no step opens a recognition
\* stream or arms a restart timer.
C8_EndedForGood ==
    [][provider.ending
       => /\ provider'.client.streams = provider.client.streams
          /\ provider'.recognizeStream = Null
          /\ provider'.pending = {}]_vars

\* C9: once the transport has closed, the provider has no recognition
\* stream and no restart timer is armed.
C9_NothingLeftAfterClose ==
    ~transportOpen =>
        /\ provider.recognizeStream = Null
        /\ provider.restartTimer = Null
        /\ provider.pending = {}

\* C10: a set/setup request that succeeds and changes codecs.selected or
\* languages.selected calls provider.restart exactly once, with the codec
\* and the language selected after the request, which opens a stream; the
\* response holds the selected codec as a one-element list and, when the
\* request named a language, the selected language as params.language.
C10_RestartWithSelected ==
    [][(/\ IsSetStep
        /\ Len(sent') = 1
        /\ ~sent'[1].hasError
        /\ \/ codecs'.selected # codecs.selected
           \/ languages'.selected # languages.selected)
       => /\ last'.restarts = <<Config(codecs'.selected, languages'.selected)>>
          /\ provider'.client.streams = provider.client.streams + 1
          /\ provider'.recognizeStream = provider'.client.streams
          /\ sent'[1].hasCodecs
          /\ sent'[1].codecs = <<codecs'.selected>>
          /\ last'.req.params.hasLanguage
             => /\ sent'[1].hasParams
                /\ sent'[1].params.hasLanguage
                /\ sent'[1].params.language = languages'.selected]_vars

\* C10 witness: the first request of the session named opus and slin16 and
\* a language; slin16, which is not the default, is selected, and
\* provider.restart was called.
C10_Witness ==
    /\ nmsgs = 1
    /\ last.ev = "request"
    /\ last.req.request \in {"set", "setup"}
    /\ last.req.codecs.list = <<"opus", "slin16">>
    /\ last.req.params.hasLanguage
    /\ codecs.selected = "slin16"
    /\ codecs.codecs[1] # "slin16"
    /\ languages.selected = "en-US"
    /\ Len(last.restarts) = 1
    /\ provider.recognizeStream # Null

\* C11: a get request whose params list holds a name outside codec,
\* language and results is answered without an error_msg, and the params of
\* the response hold the value of every recognized name of the list.
C11_UnrecognizedNameIsSkipped ==
    [][(/\ IsGetStep
        /\ last'.req.params.kind = "list"
        /\ ~(Range(last'.req.params.names) \subseteq
                 {"codec", "language", "results"}))
       => /\ Len(sent') = 1
          /\ ~sent'[1].hasError
          /\ sent'[1].hasParams
          /\ "results" \in Range(last'.req.params.names)
             => sent'[1].params.hasResults]_vars

\* C12: a get request whose params list names codec and/or language (and no
\* name outside codec, language, results) is answered with codecs.selected
\* and languages.selected as they are when it arrives (a selected value that
\* is undefined leaves its field out of the text); handling a get request
\* changes neither negotiator, calls no provider.restart and leaves the
\* provider's stream, timer, client, config and Writable state alone; the
\* selected values change only in a set/setup step answered without error,
\* whose response lists the codec then selected.
C12_GetReturnsSelected ==
    /\ [][IsGetStep =>
            /\ codecs' = codecs
            /\ languages' = languages
            /\ last'.restarts = <<>>
            /\ provider' = [provider EXCEPT !.results = provider'.results,
                                            !.written = <<>>]
            /\ (/\ last'.req.params.kind = "list"
                /\ Range(last'.req.params.names) \subseteq
                       {"codec", "language", "results"})
               => /\ Len(sent') = 1
                  /\ ~sent'[1].hasError
                  /\ sent'[1].hasParams
                  /\ "codec" \in Range(last'.req.params.names)
                     => IF codecs.selected = Undefined
                        THEN ~sent'[1].params.hasCodecs
                        ELSE /\ sent'[1].params.hasCodecs
                             /\ sent'[1].params.codecs = codecs.selected
                  /\ "language" \in Range(last'.req.params.names)
                     => IF languages.selected = Undefined
                        THEN ~sent'[1].params.hasLanguage
                        ELSE /\ sent'[1].params.hasLanguage
                             /\ sent'[1].params.language = languages.selected]_vars
    /\ [][(codecs'.selected # codecs.selected
           \/ languages'.selected # languages.selected)
          => /\ IsSetStep
             /\ ~sent'[1].hasError
             /\ sent'[1].codecs = <<codecs'.selected>>]_vars

\* C12 witness: the first request selected slin16, which is not the first
\* allowed codec, and the second is a get for codec and language answered
\* with slin16 and en-US.
C12_Witness ==
    /\ nmsgs = 2
    /\ last.ev = "request"
    /\ last.req.request = "get"
    /\ last.req.params.names = <<"codec", "language">>
    /\ codecs.selected = "slin16"
    /\ codecs.codecs[1] = "ulaw"
    /\ Len(sent) = 1
    /\ sent[1].params.codecs = "slin16"
    /\ sent[1].params.language = "en-US"

\* A list has no element twice
NoDuplicates(s) == \A i, j \in DOMAIN s : s[i] = s[j] => i = j

\* The elements of the ordered set U that are in the list C, in U's order
InOrderOf(U, C) ==
    LET InC(x) == x \in Range(C)
    IN  SelectSeq(U, InC)

\* C13: a negotiator constructed with a configured list C without
\* duplicates allows the elements of its universal list that are in C, in
\* the universal list's order whatever the order of C, and one constructed
\* without a configured list allows the universal list; selected is
\* allowed[0], which is undefined when nothing is allowed.
C13_AllowedIsIntersection ==
    LET allowed(U, option) == IF option.given THEN InOrderOf(U, option.list)
                              ELSE U
        head(s) == IF s = <<>> THEN Undefined ELSE s[1]
    IN  /\ NoDuplicates(options.codecs.list)
           => /\ codecs.codecs = allowed(supportedCodecs, options.codecs)
              /\ codecs.selected = head(codecs.codecs)
        /\ NoDuplicates(options.languages.list)
           => /\ languages.languages =
                     allowed(supportedLanguages, options.languages)
              /\ languages.selected = head(languages.languages)

\* C13 witness: the configured codecs are opus then ulaw, both supported,
\* and the allowed list has them in the universal order.
C13_Witness ==
    /\ options.codecs = Option(<<"opus", "ulaw">>)
    /\ codecs.codecs = <<"ulaw", "opus">>
    /\ codecs.selected = "ulaw"

\* C14: first(candidates) returns the allowed element of lowest index that
\* is among the candidates, whatever their order, and throws when no
\* candidate is allowed; the call changes neither negotiator.
C14_FirstIsLowestAllowed ==
    [][call' # call =>
         LET allowed == IF call'.op = "codecs.first" THEN codecs.codecs
                        ELSE languages.languages
             matches == {i \in DOMAIN allowed : allowed[i] \in Range(call'.cands)}
         IN  /\ codecs' = codecs
             /\ languages' = languages
             /\ call'.threw <=> matches = {}
             /\ ~call'.threw
                => \E i \in matches : /\ call'.result = allowed[i]
                                      /\ \A j \in matches : i <= j]_vars

\* C14 witness: every codec is allowed, the candidates are opus then
\* slin16, and slin16 is returned.
C14_Witness ==
    /\ codecs.codecs = <<"ulaw", "slin16", "opus">>
    /\ call.op = "codecs.first"
    /\ call.cands = <<"opus", "slin16">>
    /\ call.result = "slin16"
    /\ ~call.threw
    /\ codecs.selected = "ulaw"

\* C15: while the transport is open, the 'data' event that emits a result
\* puts exactly one message on the transport, {request: "set", id, params:
\* {results: [result]}} with that result alone and an id randomUUID() made
\* for it, later than the id of every earlier push; the push is sent in the
\* step that emits the result, which handles no request.
C15_OnePushPerResult ==
    /\ [][IsResultStep =>
            /\ uuids' = uuids + 1
            /\ nmsgs' = nmsgs
            /\ transportOpen
               => /\ Len(sent') = 1
                  /\ sent'[1] =
                       [request |-> "set", response |-> Undefined,
                        id |-> UUID(uuids + 1),
                        hasCodecs |-> FALSE, codecs |-> <<>>,
                        hasParams |-> TRUE,
                        params |-> [NoOutParams EXCEPT
                                      !.hasResults = TRUE,
                                      !.results = <<resultOf(last'.data)>>],
                        hasError |-> FALSE, error_msg |-> ""]]_vars
    /\ [][~IsResultStep =>
            \A i \in DOMAIN sent' : sent'[i].request = Undefined]_vars

\* C15 witness: the second result of the session has just been emitted and
\* pushed with the second id.
C15_Witness ==
    /\ transportOpen
    /\ uuids = 2
    /\ last.ev = "data"
    /\ emits(last.data)
    /\ Len(sent) = 1
    /\ sent[1].request = "set"
    /\ sent[1].id = UUID(2)
    /\ sent[1].params.results = <<resultOf(last.data)>>

\* C16: a binary frame is handed to provider.write once, as it is: a
\* provider that is streaming and not ended writes exactly that chunk to its
\* recognition stream, once; the step sends nothing on the transport, is
\* not counted as a text message, and leaves both negotiators, the result
\* buffer, the stream, the timer, the client and the config alone.
C16_BinaryIsForwarded ==
    [][last'.ev = "binary" =>
         /\ sent' = <<>>
         /\ nmsgs' = nmsgs
         /\ uuids' = uuids
         /\ codecs' = codecs
         /\ languages' = languages
         /\ provider' = [provider EXCEPT !.written = provider'.written,
                                         !.buffered = provider'.buffered]
         /\ provider'.written \o provider'.buffered
               \in {<<>>, provider.buffered \o <<last'.chunk>>}
         /\ (provider.recognizeStream # Null /\ ~provider.ending)
            => provider'.written = <<last'.chunk>>]_vars

\* C16 witness: a binary frame has arrived on a session that is streaming,
\* and its chunk was written to the recognition stream.
C16_Witness ==
    /\ last.ev = "binary"
    /\ last.chunk = "a2"
    /\ provider.recognizeStream # Null
    /\ provider.written = <<"a2">>
    /\ sent = <<>>
    /\ provider.results # <<>>

\* C17: a write to a provider that is not streaming is dropped and raises
\* no error, and no step other than a write delivers a chunk to a
\* recognition stream, so a chunk written while the provider was not
\* streaming reaches no stream after a later start either.
C17_NotStreamingWriteIsDropped ==
    [][/\ (call'.op = "write" /\ provider.recognizeStream = Null)
          => /\ provider'.written = <<>>
             /\ ~provider'.errored
       /\ call'.op # "write" => provider'.written = <<>>]_vars

\* C17 as it holds: a write to a provider that is not streaming and whose
\* Writable is not corked by a stop (before the first start, or ended by
\* end) changes nothing at all: nothing is written to a stream, nothing is
\* buffered and no error is raised; and every chunk a step writes to a
\* recognition stream is the chunk of that step's write or one the Writable
\* had buffered, so the dropped chunk reaches no stream later.
C17_DroppedUnlessCorked ==
    /\ [][(/\ call'.op = "write"
           /\ provider.recognizeStream = Null
           /\ provider.corked = 0 \/ provider.ending)
          => provider' = atEvent(provider)]_vars
    /\ [][Range(provider'.written) \cap Chunks \subseteq
              Range(provider.buffered) \cup
              (IF call'.op = "write" THEN {call'.chunk} ELSE {})]_vars

\* C17 witness: a provider that had a stream was ended, and a write to it
\* has left nothing written and nothing buffered.
C17_Witness ==
    /\ call.op = "write"
    /\ provider.ending
    /\ provider.client.streams > 0
    /\ provider.recognizeStream = Null
    /\ provider.written = <<>>
    /\ provider.buffered = <<>>
    /\ ~provider.errored

\* C18: a set/setup request that restarts the provider with a codec leaves
\* the recognition config with the encoding GoogleProvider.encodings maps
\* the codec's name to and with the codec's sample rate.
C18_ConfigReflectsCodec ==
    [][(IsSetStep /\ last'.restarts # <<>>
        /\ last'.restarts[1].codec # Undefined)
       => /\ provider'.config.encoding = encodings(last'.restarts[1].codec)
          /\ provider'.config.sampleRateHertz =
                 sampleRate(last'.restarts[1].codec)]_vars

\* C19: a setConfig whose config names a codec outside ulaw, slin16, opus
\* or a language other than en-US throws and changes nothing of the
\* provider, also when the codec is supported and the language is not; no
\* setConfig changes anything of the provider but this.config.
C19_FailedSetConfigChangesNothing ==
    [][call'.op = "setConfig" =>
         /\ (/\ call'.config.given
             /\ \/ call'.config.codec \notin
                       {Undefined, "ulaw", "slin16", "opus"}
                \/ call'.config.language \notin {Undefined, "en-US"})
            => /\ call'.threw
               /\ provider' = atEvent(provider)
         /\ provider' = [atEvent(provider) EXCEPT
                           !.config = provider'.config]]_vars

\* C19 witness: the provider's config is that of slin16, and a setConfig
\* with opus and fr-FR has thrown and left it so.
C19_Witness ==
    /\ call.op = "setConfig"
    /\ call.config = Config("opus", "fr-FR")
    /\ call.threw
    /\ provider.config.sampleRateHertz = 16000

\* C20: a 'data' event whose transcription has confidence 0 emits no result
\* (no id is made, nothing is pushed) and leaves the result buffer as it
\* was; one with any other confidence emits exactly one result, the one
\* built from it, and appends that result once, as the last entry of the
\* buffer; a response without a transcription does neither.
C20_ZeroConfidenceIsSuppressed ==
    [][last'.ev = "data" =>
         IF last'.data.hasResult /\ last'.data.confidence # 0
         THEN /\ uuids' = uuids + 1
              /\ transportOpen
                 => /\ Len(sent') = 1
                    /\ sent'[1].params.results = <<resultOf(last'.data)>>
              /\ provider'.results # <<>>
              /\ provider'.results[Len(provider'.results)] = resultOf(last'.data)
              /\ LET kept == SubSeq(provider'.results, 1,
                                     Len(provider'.results) - 1)
                 IN  \/ kept = provider.results
                     \/ /\ provider.results # <<>>
                        /\ kept = Tail(provider.results)
         ELSE /\ uuids' = uuids
              /\ sent' = <<>>
              /\ provider'.results = provider.results]_vars

\* C20 witness: a result was emitted and buffered earlier, and a
\* transcription of confidence 0 has just been handled and left the buffer
\* with that one result.
C20_Witness ==
    /\ last.ev = "data"
    /\ last.data.hasResult
    /\ last.data.confidence = 0
    /\ uuids = 1
    /\ Len(provider.results) = 1
    /\ sent = <<>>

\* C21: stop() on a provider without stream changes nothing; restart() on
\* a provider without stream does what start() does; restart() with a
\* supported config while a timer is pending does not throw and leaves one
\* timer pending, that of the stream it opened; end() on a provider that has
\* ended releases nothing more; end() is called at most once on each stream
\* and close() at most once on the client.
C21_SafeWhenIdleOrEnded ==
    /\ [](/\ \A i, j \in DOMAIN provider.client.ended :
                provider.client.ended[i] = provider.client.ended[j] => i = j
          /\ provider.client.closes <= 1)
    /\ [][/\ (call'.op = "stop" /\ provider.recognizeStream = Null)
             => provider' = atEvent(provider)
          /\ (call'.op = "restart" /\ provider.recognizeStream = Null)
             => /\ provider' = start(atEvent(provider), call'.config).p
                /\ call'.threw = start(atEvent(provider), call'.config).threw
          /\ (/\ call'.op = "restart"
              /\ provider.pending # {}
              /\ call'.config \in {NoConfig, Config("ulaw", "en-US"),
                                   Config("slin16", Undefined)})
             => /\ ~call'.threw
                /\ provider'.recognizeStream = provider.client.streams + 1
                /\ provider'.pending = {provider'.restartTimer}
                /\ provider'.client.ended =
                       Append(provider.client.ended, provider.recognizeStream)
          /\ (call'.op \in {"end", "error"} /\ provider.ending)
             => /\ provider'.client = provider.client
                /\ provider'.recognizeStream = provider.recognizeStream
                /\ provider'.pending = provider.pending]_vars

\* C21 witness: the provider was ended while it had a stream, which was
\* ended once with the client closed once, and end() was called again.
C21_Witness ==
    /\ call.op = "end"
    /\ provider.ending
    /\ provider.client.ended = <<1>>
    /\ provider.client.closes = 1
    /\ provider.corked = 0

\* C22: start(config) on a provider that has a recognition stream returns
\* without throwing, whatever the config, and changes nothing: no stream is
\* opened, the stream and the timer are kept, no timer is armed and
\* this.config is as it was.
C22_StartWhileStreamingIsNoop ==
    [][(call'.op = "start" /\ provider.recognizeStream # Null)
       => /\ ~call'.threw
          /\ provider' = atEvent(provider)]_vars

\* C22 witness: the provider streams with the default config on its first
\* stream, and a start with slin16 has left the config, the stream and the
\* one timer as they were.
C22_Witness ==
    /\ call.op = "start"
    /\ call.config = Config("slin16", Undefined)
    /\ provider.recognizeStream = 1
    /\ provider.client.streams = 1
    /\ provider.config.sampleRateHertz = 8000
    /\ provider.pending = {1}

\* C23: a text frame that is a JSON object without a request field, with
\* or without a response field, or a JSON number, string, boolean or array,
\* is handled without exception and ignored: nothing is sent, the provider
\* is left as it was and so are both negotiators.
C23_ResponseAndNeitherIgnored ==
    [][(last'.ev = "text" /\ last'.frame \in {"response", "neither", "scalar"})
       => /\ last'.escaped = Undefined
          /\ sent' = <<>>
          /\ provider' = atEvent(provider)
          /\ codecs' = codecs
          /\ languages' = languages
          /\ uuids' = uuids
          /\ nmsgs' = nmsgs]_vars

\* C23 witness: a result was pushed to the peer and buffered, and a frame
\* with a response field has been ignored.
C23_Witness ==
    /\ last.ev = "text"
    /\ last.frame = "response"
    /\ uuids = 1
    /\ Len(provider.results) = 1
    /\ provider.recognizeStream # Null
    /\ sent = <<>>

\* C24: a set/setup request answered without error on a provider that has
\* a recognition stream, after which codecs.selected and languages.selected
\* are what they were before, does not call provider.restart and leaves the
\* stream open.
C24_RestartOnlyOnChange ==
    [][(/\ IsSetStep
        /\ Len(sent') = 1
        /\ ~sent'[1].hasError
        /\ provider.recognizeStream # Null
        /\ codecs'.selected = codecs.selected
        /\ languages'.selected = languages.selected)
       => /\ last'.restarts = <<>>
          /\ provider'.recognizeStream = provider.recognizeStream]_vars

\* C25: no text frame makes the message handler throw: whether the frame is
\* a request, another JSON value or no JSON at all, no exception escapes
\* the handler.
C25_NoExceptionEscapes ==
    [][last'.ev \in {"text", "request"} => last'.escaped = Undefined]_vars

\* C26: at most one restart timer is pending; a provider without
\* recognition stream has no timer pending and none in this.restartTimer,
\* and a provider with a stream has exactly one pending, the one in
\* this.restartTimer (the interval is never 0: a 0 falls back to the
\* default).
C26_OneTimerWhileStreaming ==
    /\ Cardinality(provider.pending) <= 1
    /\ provider.restartTimeout # 0
    /\ IF provider.recognizeStream = Null
       THEN provider.pending = {} /\ provider.restartTimer = Null
       ELSE provider.pending = {provider.restartTimer}

\* C26 witness: the provider had a stream and its timer, and a restart
\* with a config it does not support has thrown after stopping both.
C26_Witness ==
    /\ call.op = "restart"
    /\ call.threw
    /\ provider.client.ended = <<1>>
    /\ provider.recognizeStream = Null
    /\ provider.pending = {}

\* C27: the expiry of the restart timer of a provider that has a stream
\* ends that stream, opens exactly one new stream, which becomes the
\* provider's, and leaves exactly one timer pending, the new one; it changes
\* neither this.config nor the result buffer nor a negotiator and sends
\* nothing; a timer expires only on a provider that has a stream.
C27_TimerRestartsStream ==
    [][last'.ev = "timer" =>
         /\ provider.recognizeStream # Null
         /\ provider'.client.ended =
                Append(provider.client.ended, provider.recognizeStream)
         /\ provider'.client.streams = provider.client.streams + 1
         /\ provider'.recognizeStream = provider'.client.streams
         /\ provider'.restartTimer # Null
         /\ provider'.pending = {provider'.restartTimer}
         /\ provider'.pending \cap provider.pending = {}
         /\ provider'.config = provider.config
         /\ provider'.results = provider.results
         /\ codecs' = codecs
         /\ languages' = languages
         /\ sent' = <<>>
         /\ uuids' = uuids]_vars

\* C27 witness: the timer of the first stream, opened for slin16, has
\* expired: the stream was ended, the second stream is open with its timer,
\* and the config and the one buffered result are kept.
C27_Witness ==
    /\ last.ev = "timer"
    /\ transportOpen
    /\ provider.client.ended = <<1>>
    /\ provider.recognizeStream = 2
    /\ provider.pending = {2}
    /\ provider.config.sampleRateHertz = 16000
    /\ Len(provider.results) = 1
    /\ codecs.selected = "slin16"

\* C28: a result that a replaced stream delivers is handled like any other:
\* it is emitted (an id is made for its push), pushed on the open transport
\* and appended to the result buffer as its last entry.
C28_StaleResultIsDelivered ==
    [][(/\ last'.ev = "data"
        /\ last'.stream # provider.recognizeStream
        /\ last'.data.hasResult
        /\ last'.data.confidence # 0)
       => /\ uuids' = uuids + 1
          /\ provider'.results # <<>>
          /\ provider'.results[Len(provider'.results)] = resultOf(last'.data)
          /\ transportOpen
             => /\ Len(sent') = 1
                /\ sent'[1].request = "set"
                /\ sent'[1].params.results = <<resultOf(last'.data)>>]_vars

\* C28 witness: two set requests were handled and answered; the first
\* opened stream 1 with the default config, the second replaced it by
\* stream 2 with the config of slin16 (a timer restart keeps the config);
\* then stream 1 delivered a result, which was pushed and buffered.
C28_Witness ==
    /\ last.ev = "data"
    /\ last.stream = 1
    /\ emits(last.data)
    /\ nmsgs = 2
    /\ transportOpen
    /\ provider.recognizeStream = 2
    /\ provider.client.ended = <<1>>
    /\ provider.client.requests[1].sampleRateHertz = 8000
    /\ provider.client.requests[2].sampleRateHertz = 16000
    /\ Len(sent) = 1
    /\ sent[1].request = "set"
    /\ sent[1].params.results = <<resultOf(last.data)>>
    /\ provider.results = <<resultOf(last.data)>>

\* C29: whatever list a negotiator is configured with, a list that names a
\* capability more than once included, its allowed list holds no
\* capability twice.
C29_AllowedHasNoDuplicates ==
    /\ NoDuplicates(codecs.codecs)
    /\ NoDuplicates(languages.languages)

=============================================================================
